---- MODULE Spec2Model ----
(***************************************************************************)
(* SET v0.3.4 (src/pglg/setlang.py): Lexer -> Parser -> Interpreter.       *)
(*                                                                         *)
(* Source text is a sequence of one-character strings.  Python values are  *)
(* records [k, n, d, s]: k is the Python type ("int", "flt", "bool",       *)
(* "str"), n/d the number (a float is the exact rational n/d, d > 0, in    *)
(* lowest terms; rounding of binary floats is not modelled), s the         *)
(* characters of a str.  AST nodes are the tuples the parser builds.       *)
(***************************************************************************)
EXTENDS Integers, Sequences, FiniteSets, TLC

VARIABLES source, stdin, consumed, tokens, pos, stmts, perr, phase, vars, stack, printed, rerr, steps

allvars == <<source, stdin, consumed, tokens, pos, stmts, perr, phase, vars, stack, printed, rerr, steps>>

(***************************************************************************)
(* Characters                                                              *)
(***************************************************************************)
DigitChars == <<"0", "1", "2", "3", "4", "5", "6", "7", "8", "9">>

LowerChars == <<"a", "b", "c", "d", "e", "f", "g", "h", "i", "j", "k", "l", "m",
                "n", "o", "p", "q", "r", "s", "t", "u", "v", "w", "x", "y", "z">>

UpperChars == <<"A", "B", "C", "D", "E", "F", "G", "H", "I", "J", "K", "L", "M",
                "N", "O", "P", "Q", "R", "S", "T", "U", "V", "W", "X", "Y", "Z">>

Range(s) == {s[i] : i \in 1..Len(s)}

IsDigit(c) == c \in Range(DigitChars)

IsIdentStart(c) == c \in Range(LowerChars) \cup Range(UpperChars) \cup {"_"}

IsWordChar(c) == IsIdentStart(c) \/ IsDigit(c)

IsBlank(c) == c \in {" ", "\t"}

DigitVal(c) == (CHOOSE i \in 1..10 : DigitChars[i] = c) - 1

\* Code point order of the characters the model's strings are made of.
Ord(c) ==
    IF IsDigit(c) THEN 48 + DigitVal(c)
    ELSE IF c \in Range(UpperChars) THEN 64 + (CHOOSE i \in 1..26 : UpperChars[i] = c)
    ELSE IF c \in Range(LowerChars) THEN 96 + (CHOOSE i \in 1..26 : LowerChars[i] = c)
    ELSE IF c = "_" THEN 95
    ELSE IF c = " " THEN 32
    ELSE 0

(***************************************************************************)
(* Python values                                                           *)
(***************************************************************************)
Abs(x) == IF x < 0 THEN -x ELSE x

RECURSIVE Gcd(_, _)
Gcd(a, b) == IF b = 0 THEN a ELSE Gcd(b, a % b)

PyInt(i) == [k |-> "int", n |-> i, d |-> 1, s |-> <<>>]

PyBool(b) == [k |-> "bool", n |-> IF b THEN 1 ELSE 0, d |-> 1, s |-> <<>>]

PyStr(cs) == [k |-> "str", n |-> 0, d |-> 1, s |-> cs]

\* the float num/den, den # 0, in lowest terms with a positive denominator
PyFloat(num, den) ==
    LET g == Gcd(Abs(num), Abs(den))
        sg == IF den < 0 THEN -1 ELSE 1
    IN  [k |-> "flt", n |-> sg * (num \div g), d |-> sg * (den \div g), s |-> <<>>]

IsNum(v) == v.k \in {"int", "bool", "flt"}

Truthy(v) == IF v.k = "str" THEN v.s # <<>> ELSE v.n # 0

RECURSIVE Pow10(_)
Pow10(e) == IF e = 0 THEN 1 ELSE 10 * Pow10(e - 1)

\* decimal value of a sequence of digit characters
RECURSIVE DigitsVal(_)
DigitsVal(cs) ==
    IF cs = <<>> THEN 0
    ELSE 10 * DigitsVal(SubSeq(cs, 1, Len(cs) - 1)) + DigitVal(cs[Len(cs)])

IndexOf(cs, c) ==
    IF c \in Range(cs) THEN CHOOSE i \in 1..Len(cs) : cs[i] = c /\ \A j \in 1..(i - 1) : cs[j] # c
    ELSE 0

(***************************************************************************)
(* Lexer                                                                   *)
(***************************************************************************)
Lit(name, text) == [name |-> name, pat |-> "lit", text |-> text]

Pat(name, pat) == [name |-> name, pat |-> pat, text |-> <<>>]

\* Lexer.token_spec, in declaration order
token_spec == <<
    Pat("NUMBER", "number"),
    Pat("STRING", "string"),
    Lit("EQ", <<"e", "q">>),
    Lit("NEQ", <<"n", "e", "q">>),
    Lit("LT", <<"l", "t">>),
    Lit("GT", <<"g", "t">>),
    Lit("LE", <<"l", "e">>),
    Lit("GE", <<"g", "e">>),
    Lit("AND", <<"a", "n", "d">>),
    Lit("OR", <<"o", "r">>),
    Lit("PL", <<"p", "l">>),
    Lit("MN", <<"m", "n">>),
    Lit("DP", <<"d", "p">>),
    Lit("NP", <<"n", "p">>),
    Lit("VAR", <<"v", "a", "r">>),
    Lit("INT", <<"i", "n", "t">>),
    Lit("FLT", <<"f", "l", "t">>),
    Lit("BOOL", <<"b", "o", "o", "l">>),
    Lit("SET", <<"s", "e", "t">>),
    Lit("IF", <<"i", "f">>),
    Lit("WSET", <<"w", "s", "e", "t">>),
    Lit("FCE", <<"f", "c", "e">>),
    Lit("TRY", <<"t", "r", "y">>),
    Lit("CATCH", <<"c", "a", "t", "c", "h">>),
    Lit("TRUE", <<"t", "r", "u", "e">>),
    Lit("FALSE", <<"f", "a", "l", "s", "e">>),
    Lit("LEN", <<"l", "e", "n">>),
    Lit("INP", <<"i", "n", "p">>),
    Pat("IDENT", "ident"),
    Lit("ASSIGN", <<"=">>),
    Lit("LBRACE", <<"{">>),
    Lit("RBRACE", <<"}">>),
    Lit("COLON", <<":">>),
    Pat("SKIP", "blank"),
    Lit("NEWLINE", <<"\n">>) >>

\* length of the longest run of characters satisfying the class, from line[i]
RECURSIVE RunLen(_, _, _)
RunLen(line, i, class) ==
    IF i > Len(line) THEN 0
    ELSE LET c == line[i]
             in == CASE class = "digit" -> IsDigit(c)
                     [] class = "word"  -> IsWordChar(c)
                     [] class = "blank" -> IsBlank(c)
                     [] OTHER           -> FALSE
         IN  IF in THEN 1 + RunLen(line, i + 1, class) ELSE 0

\* length of the match of one token_spec pattern at line[i]; 0 when it does not match
MatchLen(p, line, i) ==
    CASE p.pat = "lit" ->
           IF i + Len(p.text) - 1 <= Len(line) /\ SubSeq(line, i, i + Len(p.text) - 1) = p.text
           THEN Len(p.text) ELSE 0
      [] p.pat = "number" ->                              \* \d+(\.\d+)?
           LET a == RunLen(line, i, "digit")
           IN  IF a = 0 THEN 0
               ELSE IF i + a <= Len(line) /\ line[i + a] = "."
                       /\ RunLen(line, i + a + 1, "digit") > 0
                    THEN a + 1 + RunLen(line, i + a + 1, "digit")
                    ELSE a
      [] p.pat = "string" ->                              \* "[^"]*"
           IF line[i] = "\"" /\ \E j \in (i + 1)..Len(line) : line[j] = "\""
           THEN (CHOOSE j \in (i + 1)..Len(line) :
                    line[j] = "\"" /\ \A h \in (i + 1)..(j - 1) : line[h] # "\"") - i + 1
           ELSE 0
      [] p.pat = "ident" ->                               \* [a-zA-Z_]\w*
           IF IsIdentStart(line[i]) THEN 1 + RunLen(line, i + 1, "word") ELSE 0
      [] p.pat = "blank" -> RunLen(line, i, "blank")      \* [ \t]+
      [] OTHER -> 0

\* the alternation "|".join(...): the first pattern of token_spec that matches at line[i]
FirstMatch(line, i) ==
    LET hits == {g \in 1..Len(token_spec) : MatchLen(token_spec[g], line, i) > 0}
    IN  IF hits = {} THEN 0 ELSE CHOOSE g \in hits : \A h \in hits : g <= h

Token(type, value) == [type |-> type, value |-> value]

\* float(v) if "." in v else int(v)
NumberValue(v) ==
    LET dot == IndexOf(v, ".")
    IN  IF dot = 0 THEN PyInt(DigitsVal(v))
        ELSE LET ip == SubSeq(v, 1, dot - 1)
                 fp == SubSeq(v, dot + 1, Len(v))
             IN  PyFloat(DigitsVal(ip) * Pow10(Len(fp)) + DigitsVal(fp), Pow10(Len(fp)))

\* the token one match appends (<<>> for SKIP and NEWLINE)
MakeToken(k, v) ==
    IF k = "NUMBER" THEN <<Token("NUMBER", NumberValue(v))>>
    ELSE IF k = "STRING" THEN <<Token("STRING", PyStr(SubSeq(v, 2, Len(v) - 1)))>>
    ELSE IF k \in {"SKIP", "NEWLINE"} THEN <<>>
    ELSE <<Token(k, PyStr(v))>>

\* re.finditer over one line: unmatched characters are skipped
RECURSIVE ScanLine(_, _)
ScanLine(line, i) ==
    IF i > Len(line) THEN <<>>
    ELSE LET g == FirstMatch(line, i)
         IN  IF g = 0 THEN ScanLine(line, i + 1)
             ELSE LET m == MatchLen(token_spec[g], line, i)
                  IN  MakeToken(token_spec[g].name, SubSeq(line, i, i + m - 1))
                        \o ScanLine(line, i + m)

\* line.split("#", 1)[0]
StripComment(line) ==
    LET h == IndexOf(line, "#")
    IN  IF h = 0 THEN line ELSE SubSeq(line, 1, h - 1)

\* Lexer.tokenize: line by line over code.splitlines()
RECURSIVE tokenize(_)
tokenize(code) ==
    IF code = <<>> THEN <<>>
    ELSE LET nl == IndexOf(code, "\n")
             line == IF nl = 0 THEN code ELSE SubSeq(code, 1, nl - 1)
             rest == IF nl = 0 THEN <<>> ELSE SubSeq(code, nl + 1, Len(code))
         IN  ScanLine(StripComment(line), 1) \o tokenize(rest)

(***************************************************************************)
(* Parser                                                                  *)
(* A parsing method is an operator from the position it starts at to       *)
(* [pos, node, err]: the position it leaves self.pos at, what it returns,  *)
(* and the error it raises ("none" when it returns).                       *)
(***************************************************************************)
None == <<"None">>

Ok(p, node) == [pos |-> p, node |-> node, err |-> "none"]

Fail(p, e) == [pos |-> p, node |-> None, err |-> e]

\* Parser.current is None
AtEnd(p) == ~(p < Len(tokens))

\* Parser.current, when it is a token
current(p) == tokens[p + 1]

eat(p, t) ==
    IF ~AtEnd(p) /\ current(p).type = t THEN Ok(p + 1, current(p))
    ELSE Fail(p, "parser desync")

BinaryOps == {"PL", "MN", "DP", "NP", "EQ", "NEQ", "LT", "GT", "LE", "GE", "AND", "OR"}

RECURSIVE factor(_)
factor(p) ==
    IF AtEnd(p) THEN Fail(p, "AttributeError")           \* tok.type of None
    ELSE LET tok == current(p)
             e == eat(p, tok.type)
         IN  CASE tok.type = "NUMBER" -> Ok(e.pos, <<"NUM", tok.value>>)
               [] tok.type = "STRING" -> Ok(e.pos, <<"STR", tok.value>>)
               [] tok.type = "TRUE"   -> Ok(e.pos, <<"BOOL", PyBool(TRUE)>>)
               [] tok.type = "FALSE"  -> Ok(e.pos, <<"BOOL", PyBool(FALSE)>>)
               [] tok.type = "IDENT"  -> Ok(e.pos, <<"VARREF", tok.value>>)
               [] tok.type = "INP"    -> Ok(e.pos, <<"INP">>)
               [] tok.type = "LEN"    ->
                    LET f == factor(e.pos)
                    IN  IF f.err # "none" THEN f ELSE Ok(f.pos, <<"LEN", f.node>>)
               [] OTHER -> Fail(p, "bad expr")

\* the while loop of Parser.expr, n the tree built so far
RECURSIVE ExprLoop(_, _)

\* ExprLoop nesting to the right: the rest of the expression is the right operand
ExprLoop_RightNested(p, n) ==
    IF ~AtEnd(p) /\ current(p).type \in BinaryOps
    THEN LET op == current(p).type
             e == eat(p, op)
             f == factor(e.pos)
         IN  IF f.err # "none" THEN f
             ELSE LET rest == ExprLoop(f.pos, f.node)
                  IN  IF rest.err # "none" THEN rest ELSE Ok(rest.pos, <<op, n, rest.node>>)
    ELSE Ok(p, n)

ExprLoop(p, n) ==
    IF ~AtEnd(p) /\ current(p).type \in BinaryOps
    THEN LET op == current(p).type
             e == eat(p, op)
             f == factor(e.pos)
         IN  IF f.err # "none" THEN f ELSE ExprLoop(f.pos, <<op, n, f.node>>)
    ELSE Ok(p, n)

expr(p) ==
    LET f == factor(p)
    IN  IF f.err # "none" THEN f ELSE ExprLoop(f.pos, f.node)

RECURSIVE statement(_)
RECURSIVE block_or_stmt(_)
RECURSIVE BlockLoop(_, _)

\* the while loop of Parser.block_or_stmt, s the statements collected so far
BlockLoop(p, s) ==
    IF ~AtEnd(p) /\ current(p).type # "RBRACE"
    THEN LET st == statement(p)
         IN  IF st.err # "none" THEN st
             ELSE BlockLoop(st.pos, IF st.node # None THEN Append(s, st.node) ELSE s)
    ELSE Ok(p, s)

block_or_stmt(p) ==
    IF ~AtEnd(p) /\ current(p).type = "LBRACE"
    THEN LET a == eat(p, "LBRACE")
             b == BlockLoop(a.pos, <<>>)
         IN  IF b.err # "none" THEN b
             ELSE LET c == eat(b.pos, "RBRACE")
                  IN  IF c.err # "none" THEN c ELSE Ok(c.pos, <<"BLOCK", b.node>>)
    ELSE statement(p)

var_decl(p) ==
    LET a == eat(p, "VAR")
    IN  IF a.err # "none" THEN a
        ELSE IF AtEnd(a.pos) THEN Fail(a.pos, "AttributeError")   \* self.current().type of None
        ELSE LET t == eat(a.pos, current(a.pos).type)
                 name == eat(t.pos, "IDENT")
             IN  IF name.err # "none" THEN name
                 ELSE LET d == eat(name.pos, "ASSIGN")
                      IN  IF d.err # "none" THEN d
                          ELSE LET val == expr(d.pos)
                               IN  IF val.err # "none" THEN val
                                   ELSE Ok(val.pos, <<"VAR", t.node.type, name.node.value, val.node>>)

set_stmt(p) ==
    LET a == eat(p, "SET")
    IN  IF a.err # "none" THEN a
        ELSE LET e == expr(a.pos)
             IN  IF e.err # "none" THEN e ELSE Ok(e.pos, <<"SET", e.node>>)

if_stmt(p) ==
    LET a == eat(p, "IF")
    IN  IF a.err # "none" THEN a
        ELSE LET cond == expr(a.pos)
             IN  IF cond.err # "none" THEN cond
                 ELSE LET then == block_or_stmt(cond.pos)
                      IN  IF then.err # "none" THEN then
                          ELSE IF ~AtEnd(then.pos) /\ current(then.pos).type = "COLON"
                          THEN LET c == eat(then.pos, "COLON")
                                   else == block_or_stmt(c.pos)
                               IN  IF else.err # "none" THEN else
                                   ELSE Ok(else.pos, <<"IF", cond.node, then.node, else.node>>)
                          ELSE Ok(then.pos, <<"IF", cond.node, then.node, None>>)

wset_stmt(p) ==
    LET a == eat(p, "WSET")
    IN  IF a.err # "none" THEN a
        ELSE LET cond == expr(a.pos)
             IN  IF cond.err # "none" THEN cond
                 ELSE LET b == block_or_stmt(cond.pos)
                      IN  IF b.err # "none" THEN b
                          ELSE Ok(b.pos, <<"WSET", cond.node, b.node>>)

fce_stmt(p) ==
    LET a == eat(p, "FCE")
    IN  IF a.err # "none" THEN a
        ELSE LET name == eat(a.pos, "IDENT")
             IN  IF name.err # "none" THEN name
                 ELSE Ok(name.pos, <<"FCE", name.node.value>>)

try_stmt(p) ==
    LET a == eat(p, "TRY")
    IN  IF a.err # "none" THEN a
        ELSE LET t == block_or_stmt(a.pos)
             IN  IF t.err # "none" THEN t
                 ELSE LET k == eat(t.pos, "CATCH")
                      IN  IF k.err # "none" THEN k
                          ELSE LET c == block_or_stmt(k.pos)
                               IN  IF c.err # "none" THEN c
                                   ELSE Ok(c.pos, <<"TRY", t.node, c.node>>)

\* statement rejecting a stray literal instead of skipping it
statement_Strict(p) ==
    IF AtEnd(p) THEN Ok(p, None)
    ELSE LET tok == current(p)
         IN  CASE tok.type \in {"STRING", "NUMBER", "TRUE", "FALSE"} -> Fail(p, "bad expr")
               [] tok.type = "VAR"  -> var_decl(p)
               [] tok.type = "SET"  -> set_stmt(p)
               [] tok.type = "IF"   -> if_stmt(p)
               [] tok.type = "WSET" -> wset_stmt(p)
               [] tok.type = "FCE"  -> fce_stmt(p)
               [] tok.type = "TRY"  -> try_stmt(p)
               [] OTHER -> Ok(p + 1, None)

\* statement leaving an unknown token where it is
statement_Stuck(p) ==
    IF AtEnd(p) THEN Ok(p, None)
    ELSE LET tok == current(p)
         IN  CASE tok.type \in {"STRING", "NUMBER", "TRUE", "FALSE"} -> Ok(p + 1, None)
               [] tok.type = "VAR"  -> var_decl(p)
               [] tok.type = "SET"  -> set_stmt(p)
               [] tok.type = "IF"   -> if_stmt(p)
               [] tok.type = "WSET" -> wset_stmt(p)
               [] tok.type = "FCE"  -> fce_stmt(p)
               [] tok.type = "TRY"  -> try_stmt(p)
               [] OTHER -> Ok(p, None)

statement(p) ==
    IF AtEnd(p) THEN Ok(p, None)
    ELSE LET tok == current(p)
         IN  CASE tok.type \in {"STRING", "NUMBER", "TRUE", "FALSE"} -> Ok(p + 1, None)
               [] tok.type = "VAR"  -> var_decl(p)
               [] tok.type = "SET"  -> set_stmt(p)
               [] tok.type = "IF"   -> if_stmt(p)
               [] tok.type = "WSET" -> wset_stmt(p)
               [] tok.type = "FCE"  -> fce_stmt(p)
               [] tok.type = "TRY"  -> try_stmt(p)
               [] OTHER -> Ok(p + 1, None)

(***************************************************************************)
(* Interpreter: values of the operators                                    *)
(* An operation on values is [v, err]: the value, or the exception raised. *)
(***************************************************************************)
Val(v) == [v |-> v, err |-> "none"]

Exc(e) == [v |-> PyInt(0), err |-> e]

IsFloatOp(a, b) == a.k = "flt" \/ b.k = "flt"

RECURSIVE Repeat(_, _)
Repeat(cs, n) == IF n <= 0 THEN <<>> ELSE cs \o Repeat(cs, n - 1)

\* a + b
Add(a, b) ==
    IF IsNum(a) /\ IsNum(b)
    THEN Val(IF IsFloatOp(a, b) THEN PyFloat(a.n * b.d + b.n * a.d, a.d * b.d)
             ELSE PyInt(a.n + b.n))
    ELSE IF a.k = "str" /\ b.k = "str" THEN Val(PyStr(a.s \o b.s))
    ELSE Exc("TypeError")

\* a - b
Sub(a, b) ==
    IF IsNum(a) /\ IsNum(b)
    THEN Val(IF IsFloatOp(a, b) THEN PyFloat(a.n * b.d - b.n * a.d, a.d * b.d)
             ELSE PyInt(a.n - b.n))
    ELSE Exc("TypeError")

\* a * b (a str times an int repeats the str)
Mul(a, b) ==
    IF IsNum(a) /\ IsNum(b)
    THEN Val(IF IsFloatOp(a, b) THEN PyFloat(a.n * b.n, a.d * b.d) ELSE PyInt(a.n * b.n))
    ELSE IF a.k = "str" /\ b.k \in {"int", "bool"} THEN Val(PyStr(Repeat(a.s, b.n)))
    ELSE IF b.k = "str" /\ a.k \in {"int", "bool"} THEN Val(PyStr(Repeat(b.s, a.n)))
    ELSE Exc("TypeError")

\* a / b (true division: the result is a float)
Div(a, b) ==
    IF IsNum(a) /\ IsNum(b)
    THEN IF b.n = 0 THEN Exc("ZeroDivisionError") ELSE Val(PyFloat(a.n * b.d, a.d * b.n))
    ELSE Exc("TypeError")

\* a == b
PyEq(a, b) ==
    IF IsNum(a) /\ IsNum(b) THEN a.n * b.d = b.n * a.d
    ELSE IF a.k = "str" /\ b.k = "str" THEN a.s = b.s
    ELSE FALSE

\* a < b on strs: lexicographic by code point
RECURSIVE StrLess(_, _)
StrLess(a, b) ==
    IF b = <<>> THEN FALSE
    ELSE IF a = <<>> THEN TRUE
    ELSE IF Ord(a[1]) # Ord(b[1]) THEN Ord(a[1]) < Ord(b[1])
    ELSE StrLess(Tail(a), Tail(b))

\* a < b
Less(a, b) ==
    IF IsNum(a) /\ IsNum(b) THEN Val(PyBool(a.n * b.d < b.n * a.d))
    ELSE IF a.k = "str" /\ b.k = "str" THEN Val(PyBool(StrLess(a.s, b.s)))
    ELSE Exc("TypeError")

\* a <= b
LessEq(a, b) ==
    IF IsNum(a) /\ IsNum(b) THEN Val(PyBool(a.n * b.d <= b.n * a.d))
    ELSE IF a.k = "str" /\ b.k = "str" THEN Val(PyBool(~StrLess(b.s, a.s)))
    ELSE Exc("TypeError")

\* len(a)
PyLen(a) == IF a.k = "str" THEN Val(PyInt(Len(a.s))) ELSE Exc("TypeError")

\* the binary operators of Interpreter.eval other than AND and OR
Apply(op, a, b) ==
    CASE op = "PL"  -> Add(a, b)
      [] op = "MN"  -> Sub(a, b)
      [] op = "DP"  -> Mul(a, b)
      [] op = "NP"  -> Div(a, b)
      [] op = "EQ"  -> Val(PyBool(PyEq(a, b)))
      [] op = "NEQ" -> Val(PyBool(~PyEq(a, b)))
      [] op = "LT"  -> Less(a, b)
      [] op = "GT"  -> Less(b, a)
      [] op = "LE"  -> LessEq(a, b)
      [] op = "GE"  -> LessEq(b, a)

\* str.strip() of blanks
RECURSIVE Strip(_)
Strip(cs) ==
    IF cs # <<>> /\ IsBlank(cs[1]) THEN Strip(Tail(cs))
    ELSE IF cs # <<>> /\ IsBlank(cs[Len(cs)]) THEN Strip(SubSeq(cs, 1, Len(cs) - 1))
    ELSE cs

AllDigits(cs) == cs # <<>> /\ \A i \in 1..Len(cs) : IsDigit(cs[i])

\* a signed decimal numeral as [ok, neg, body]
Signed(cs) ==
    LET t == Strip(cs)
        sg == t # <<>> /\ t[1] \in {"+", "-"}
    IN  [neg |-> sg /\ t[1] = "-", body |-> IF sg THEN Tail(t) ELSE t]

\* int(val).  Of a str: decimal digits with an optional sign and blanks
\* around (the model's strings hold no underscore or non-ASCII digit).
ToInt(val) ==
    IF val.k \in {"int", "bool"} THEN Val(PyInt(val.n))
    ELSE IF val.k = "flt"
    THEN Val(PyInt(IF val.n >= 0 THEN val.n \div val.d ELSE -((-val.n) \div val.d)))
    ELSE LET g == Signed(val.s)
         IN  IF AllDigits(g.body)
             THEN Val(PyInt(IF g.neg THEN -DigitsVal(g.body) ELSE DigitsVal(g.body)))
             ELSE Exc("ValueError")

\* float(val).  Of a str: digits, digits., digits.digits or .digits with an
\* optional sign (the model's strings hold no exponent, inf or nan).
ToFloat(val) ==
    IF IsNum(val) THEN Val(PyFloat(val.n, val.d))
    ELSE LET g == Signed(val.s)
             dot == IndexOf(g.body, ".")
             ip == IF dot = 0 THEN g.body ELSE SubSeq(g.body, 1, dot - 1)
             fp == IF dot = 0 THEN <<>> ELSE SubSeq(g.body, dot + 1, Len(g.body))
             ok == /\ ip \o fp # <<>>
                   /\ \A i \in 1..Len(ip) : IsDigit(ip[i])
                   /\ \A i \in 1..Len(fp) : IsDigit(fp[i])
             num == DigitsVal(ip) * Pow10(Len(fp)) + DigitsVal(fp)
         IN  IF ok THEN Val(PyFloat(IF g.neg THEN -num ELSE num, Pow10(Len(fp))))
             ELSE Exc("ValueError")

\* int(val) if tp=="INT" else float(val) if tp=="FLT" else val
Coerce(tp, val) ==
    IF tp = "INT" THEN ToInt(val) ELSE IF tp = "FLT" THEN ToFloat(val) ELSE Val(val)

(***************************************************************************)
(* Interpreter.eval                                                        *)
(* [v, err, sin]: the value or the exception, and the number of lines of   *)
(* standard input read so far.                                             *)
(***************************************************************************)
EVal(v, sin) == [v |-> v, err |-> "none", sin |-> sin]

EExc(e, sin) == [v |-> PyInt(0), err |-> e, sin |-> sin]

\* self.vars.get(name, 0)
Lookup(name) == IF name \in DOMAIN vars THEN vars[name] ELSE PyInt(0)

\* input(): one line of standard input
Input(sin) ==
    IF sin >= Len(stdin) THEN EExc("EOFError", sin) ELSE EVal(PyStr(stdin[sin + 1]), sin + 1)

\* AndThen without the short circuit: the right operand is always evaluated
AndThen_Always(l) == TRUE

\* "self.eval(n[1]) and self.eval(n[2])": whether the right operand is evaluated,
\* l the evaluated left operand
AndThen(l) == Truthy(l.v)

\* "self.eval(n[1]) or self.eval(n[2])": whether the right operand is evaluated,
\* l the evaluated left operand
OrElse(l) == ~Truthy(l.v)

RECURSIVE eval(_, _)
eval(n, sin) ==
    LET t == n[1]
    IN  CASE t \in {"NUM", "STR", "BOOL"} -> EVal(n[2], sin)
          [] t = "VARREF" -> EVal(Lookup(n[2]), sin)
          [] t = "INP" -> Input(sin)
          [] t = "LEN" ->
               LET a == eval(n[2], sin)
                   r == PyLen(a.v)
               IN  IF a.err # "none" THEN a
                   ELSE IF r.err # "none" THEN EExc(r.err, a.sin) ELSE EVal(r.v, a.sin)
          [] t = "AND" ->
               LET l == eval(n[2], sin)
               IN  IF l.err # "none" THEN l
                   ELSE IF AndThen(l) THEN eval(n[3], l.sin) ELSE l
          [] t = "OR" ->
               LET l == eval(n[2], sin)
               IN  IF l.err # "none" THEN l
                   ELSE IF OrElse(l) THEN eval(n[3], l.sin) ELSE l
          [] OTHER ->
               LET l == eval(n[2], sin)
               IN  IF l.err # "none" THEN l
                   ELSE LET r == eval(n[3], l.sin)
                        IN  IF r.err # "none" THEN r
                            ELSE LET x == Apply(t, l.v, r.v)
                                 IN  IF x.err # "none" THEN EExc(x.err, r.sin)
                                     ELSE EVal(x.v, r.sin)

(***************************************************************************)
(* Interpreter.run, one statement per step                                 *)
(* stack holds the activations of run in progress, innermost last:         *)
(*   "run"    a call run(body), about to execute body[i];                  *)
(*   "while"  the loop of a WSET statement, about to test its condition;   *)
(*   "try"    the try clause of a TRY statement, its run([s[1]]) above it. *)
(***************************************************************************)
MaxSteps == 60

\* Interpreter.funcs
funcs == [f \in {PyStr(<<"h", "e", "l", "l", "o">>)} |->
            << <<"SET", <<"STR", PyStr(<<"h", "e", "l", "l", "o", " ", "f", "u", "n", "c", "t", "i", "o", "n">>)>>>> >>]

RunFrame(body) == [kind |-> "run", body |-> body, i |-> 1, node |-> None]

WhileFrame(s) == [kind |-> "while", body |-> <<>>, i |-> 0, node |-> s]

TryFrame(s) == [kind |-> "try", body |-> <<>>, i |-> 0, node |-> s]

Top == stack[Len(stack)]

Pop(st) == SubSeq(st, 1, Len(st) - 1)

\* the stack with the for loop of the innermost run moved to its next statement
Advanced == [stack EXCEPT ![Len(stack)].i = @ + 1]

\* self.vars[n] = v
Bind(m, n, v) == [x \in (DOMAIN m) \cup {n} |-> IF x = n THEN v ELSE m[x]]

\* Unwind with no handler: the exception leaves every activation
Unwind_NoHandler(st) == <<>>

\* An exception leaves every activation up to the innermost try clause, whose
\* handler runs the catch branch: "except: self.run([s[2]])"
RECURSIVE Unwind(_)
Unwind(st) ==
    IF st = <<>> THEN <<>>
    ELSE IF st[Len(st)].kind = "try" THEN Append(Pop(st), RunFrame(<<st[Len(st)].node[3]>>))
    ELSE Unwind(Pop(st))

Running == phase = "run" /\ stack # <<>> /\ steps < MaxSteps

AtStatement == Running /\ Top.kind = "run" /\ Top.i <= Len(Top.body)

\* the statement s of "for s in stmts" in the innermost run
Cur == Top.body[Top.i]

\* the step ends normally
Continue(st, vs, out, sin) ==
    /\ stack' = st
    /\ vars' = vs
    /\ printed' = out
    /\ consumed' = sin
    /\ phase' = IF st = <<>> THEN "done" ELSE "run"
    /\ steps' = steps + 1
    /\ UNCHANGED <<source, stdin, tokens, pos, stmts, perr, rerr>>

\* the step raises e
Raise(e, sin) ==
    /\ stack' = Unwind(stack)
    /\ consumed' = sin
    /\ phase' = IF Unwind(stack) = <<>> THEN "error" ELSE "run"
    /\ rerr' = IF Unwind(stack) = <<>> THEN e ELSE rerr
    /\ steps' = steps + 1
    /\ UNCHANGED <<source, stdin, tokens, pos, stmts, perr, vars, printed>>

\* t=="VAR"
ExecVar ==
    /\ AtStatement /\ Cur[1] = "VAR"
    /\ LET r == eval(Cur[4], consumed)
           c == Coerce(Cur[2], r.v)
       IN  IF r.err # "none" THEN Raise(r.err, r.sin)
           ELSE IF c.err # "none" THEN Raise(c.err, r.sin)
           ELSE Continue(Advanced, Bind(vars, Cur[3], c.v), printed, r.sin)

\* t=="SET"
ExecSet ==
    /\ AtStatement /\ Cur[1] = "SET"
    /\ LET r == eval(Cur[2], consumed)
       IN  IF r.err # "none" THEN Raise(r.err, r.sin)
           ELSE Continue(Advanced, vars, Append(printed, r.v), r.sin)

\* t=="IF": self.run([th]) if self.eval(c) else el and self.run([el])
ExecIf ==
    /\ AtStatement /\ Cur[1] = "IF"
    /\ LET r == eval(Cur[2], consumed)
       IN  IF r.err # "none" THEN Raise(r.err, r.sin)
           ELSE IF Truthy(r.v) THEN Continue(Append(Advanced, RunFrame(<<Cur[3]>>)), vars, printed, r.sin)
           ELSE IF Cur[4] # None THEN Continue(Append(Advanced, RunFrame(<<Cur[4]>>)), vars, printed, r.sin)
           ELSE Continue(Advanced, vars, printed, r.sin)

\* t=="WSET": the while statement is entered
ExecWset ==
    /\ AtStatement /\ Cur[1] = "WSET"
    /\ Continue(Append(Advanced, WhileFrame(Cur)), vars, printed, consumed)

\* WhileTest as an if: the body runs once and the loop is left
WhileTest_Once ==
    /\ Running /\ Top.kind = "while"
    /\ LET r == eval(Top.node[2], consumed)
       IN  IF r.err # "none" THEN Raise(r.err, r.sin)
           ELSE IF Truthy(r.v) THEN Continue(Append(Pop(stack), RunFrame(<<Top.node[3]>>)), vars, printed, r.sin)
           ELSE Continue(Pop(stack), vars, printed, r.sin)

\* while self.eval(c): self.run([b])
WhileTest ==
    /\ Running /\ Top.kind = "while"
    /\ LET r == eval(Top.node[2], consumed)
       IN  IF r.err # "none" THEN Raise(r.err, r.sin)
           ELSE IF Truthy(r.v) THEN Continue(Append(stack, RunFrame(<<Top.node[3]>>)), vars, printed, r.sin)
           ELSE Continue(Pop(stack), vars, printed, r.sin)

\* t=="BLOCK"
ExecBlock ==
    /\ AtStatement /\ Cur[1] = "BLOCK"
    /\ Continue(Append(Advanced, RunFrame(Cur[2])), vars, printed, consumed)

\* t=="FCE"
ExecFce ==
    /\ AtStatement /\ Cur[1] = "FCE"
    /\ IF Cur[2] \in DOMAIN funcs
       THEN Continue(Append(Advanced, RunFrame(funcs[Cur[2]])), vars, printed, consumed)
       ELSE Continue(Advanced, vars, printed, consumed)

\* t=="TRY": try: self.run([s[1]])
ExecTry ==
    /\ AtStatement /\ Cur[1] = "TRY"
    /\ Continue(Advanced \o <<TryFrame(Cur), RunFrame(<<Cur[2]>>)>>, vars, printed, consumed)

\* the try clause ended without an exception
TryDone ==
    /\ Running /\ Top.kind = "try"
    /\ Continue(Pop(stack), vars, printed, consumed)

\* "t=s[0]" with s None: 'NoneType' object is not subscriptable
ExecNone ==
    /\ AtStatement /\ Cur = None
    /\ Raise("TypeError: 'NoneType' object is not subscriptable", consumed)

\* ReturnRun closing a scope: the bindings are dropped when run returns
ReturnRun_Scoped ==
    /\ Running /\ Top.kind = "run" /\ Top.i > Len(Top.body)
    /\ Continue(Pop(stack), <<>>, printed, consumed)

\* the for loop of run is exhausted: run returns
ReturnRun ==
    /\ Running /\ Top.kind = "run" /\ Top.i > Len(Top.body)
    /\ Continue(Pop(stack), vars, printed, consumed)

(***************************************************************************)
(* run_code: tokenize, parse, run                                          *)
(***************************************************************************)
\* tokens=Lexer(code).tokenize()
Tokenize ==
    /\ phase = "lex"
    /\ tokens' = tokenize(source)
    /\ phase' = "parse"
    /\ UNCHANGED <<source, stdin, consumed, pos, stmts, perr, vars, stack, printed, rerr, steps>>

\* one iteration of the loop of Parser.parse
ParseStatement ==
    /\ phase = "parse" /\ ~AtEnd(pos)
    /\ LET r == statement(pos)
       IN  /\ pos' = r.pos
           /\ perr' = r.err
           /\ phase' = IF r.err # "none" THEN "parse error" ELSE "parse"
           /\ stmts' = IF r.err = "none" /\ r.node # None THEN Append(stmts, r.node) ELSE stmts
    /\ UNCHANGED <<source, stdin, consumed, tokens, vars, stack, printed, rerr, steps>>

\* Parser.parse returns stmts; Interpreter().run(tree) starts
ParseReturn ==
    /\ phase = "parse" /\ AtEnd(pos)
    /\ phase' = "run"
    /\ stack' = <<RunFrame(stmts)>>
    /\ vars' = <<>>
    /\ UNCHANGED <<source, stdin, consumed, tokens, pos, stmts, perr, printed, rerr, steps>>

(***************************************************************************)
(* Programs: the source texts run_code is given                            *)
(***************************************************************************)
MaxStr == 2

MaxN == 3

MaxBelow == 1

MaxOps == 2

MaxToks == 4

MaxShort == 2

\* the spelling of a keyword or punctuation token
Kw(name) == token_spec[CHOOSE g \in 1..Len(token_spec) : token_spec[g].name = name].text

RECURSIVE Join(_)
Join(ws) ==
    IF ws = <<>> THEN <<>>
    ELSE IF Len(ws) = 1 THEN ws[1]
    ELSE ws[1] \o <<" ">> \o Join(Tail(ws))

RECURSIVE Numeral(_)
Numeral(n) ==
    IF n < 10 THEN <<DigitChars[n + 1]>>
    ELSE Numeral(n \div 10) \o <<DigitChars[(n % 10) + 1]>>

Quote(cs) == <<"\"">> \o cs \o <<"\"">>

SeqsUpTo(S, n) == UNION {[1..h -> S] : h \in 0..n}

X == <<"x">>

Y == <<"y">>

\* the numeral of v, written "0 mn k" when v is -k (the language has no negative literal)
NumExpr(v) == IF v >= 0 THEN <<Numeral(v)>> ELSE <<Numeral(0), Kw("MN"), Numeral(-v)>>

\* set len "s"
StrChars == {"a", "7", " "}

LenSource(cs) == Join(<<Kw("SET"), Kw("LEN"), Quote(cs)>>)

LenSources == {LenSource(cs) : cs \in SeqsUpTo(StrChars, MaxStr)}

\* wset x lt N { set x var int x = x pl 1 }, after "var int x = x0" when start is <<x0>>
LoopStarts(N) == {<<>>} \cup {<<x0>> : x0 \in (-MaxBelow)..N}

LoopSource(start, N) ==
    (IF start = <<>> THEN <<>>
     ELSE Join(<<Kw("VAR"), Kw("INT"), X, Kw("ASSIGN")>> \o NumExpr(start[1])) \o <<"\n">>)
    \o Join(<<Kw("WSET"), X, Kw("LT"), Numeral(N), Kw("LBRACE"), Kw("SET"), X,
              Kw("VAR"), Kw("INT"), X, Kw("ASSIGN"), X, Kw("PL"), Numeral(1), Kw("RBRACE")>>)

LoopSources == UNION {{LoopSource(st, N) : st \in LoopStarts(N)} : N \in 0..MaxN}

\* try { t } catch { c }.  A body is [text, raises, out]: its source text, whether
\* running it alone raises, and what it prints before it ends or raises.
Body(text, raises, out) == [text |-> text, raises |-> raises, out |-> out]

Caught == <<"c", "a", "u", "g", "h", "t">>

TryBodies == {
    Body(Join(<<Kw("SET"), Numeral(1)>>), FALSE, <<PyInt(1)>>),
    Body(Join(<<Kw("SET"), Numeral(1), Kw("NP"), Numeral(0)>>), TRUE, <<>>),
    Body(Join(<<Kw("SET"), Numeral(2), Kw("SET"), Numeral(1), Kw("NP"), Numeral(0)>>), TRUE, <<PyInt(2)>>),
    Body(Join(<<Kw("SET"), Numeral(1), Kw("PL"), Quote(<<"a">>)>>), TRUE, <<>>),
    Body(Join(<<Kw("VAR"), Kw("INT"), X, Kw("ASSIGN"), Quote(<<"a">>)>>), TRUE, <<>>),
    Body(Join(<<Kw("FCE"), <<"h", "e", "l", "l", "o">>>>), FALSE, <<PyStr(<<"h", "e", "l", "l", "o", " ", "f", "u", "n", "c", "t", "i", "o", "n">>)>>),
    Body(<<>>, FALSE, <<>>) }

CatchBodies == {
    Body(Join(<<Kw("SET"), Quote(Caught)>>), FALSE, <<PyStr(Caught)>>),
    Body(Join(<<Kw("SET"), Numeral(1), Kw("NP"), Numeral(0)>>), TRUE, <<>>),
    Body(Join(<<Kw("SET"), Numeral(3), Kw("SET"), Y, Kw("MN"), Quote(<<"a">>)>>), TRUE, <<PyInt(3)>>),
    Body(Join(<<Kw("VAR"), Kw("INT"), X, Kw("ASSIGN"), Numeral(2)>>), FALSE, <<>>),
    Body(<<>>, FALSE, <<>>) }

TrySource(t, c) ==
    Join(<<Kw("TRY"), Kw("LBRACE"), t.text, Kw("RBRACE"),
           Kw("CATCH"), Kw("LBRACE"), c.text, Kw("RBRACE")>>)

TrySources == {TrySource(t, c) : t \in TryBodies, c \in CatchBodies}

\* set l and inp, set l or inp.  A left operand is [text, truthy, v].
Operand(text, truthy, v) == [text |-> text, truthy |-> truthy, v |-> v]

LeftOperands == {
    Operand(Numeral(0), FALSE, PyInt(0)),
    Operand(Numeral(1), TRUE, PyInt(1)),
    Operand(Kw("TRUE"), TRUE, PyBool(TRUE)),
    Operand(Kw("FALSE"), FALSE, PyBool(FALSE)),
    Operand(Quote(<<>>), FALSE, PyStr(<<>>)),
    Operand(Quote(<<"a">>), TRUE, PyStr(<<"a">>)),
    Operand(X, FALSE, PyInt(0)) }

AndOrSource(l, op) == Join(<<Kw("SET"), l.text, Kw(op), Kw("INP")>>)

AndOrSources == {AndOrSource(l, op) : l \in LeftOperands, op \in {"AND", "OR"}}

\* set f1 op1 f2 op2 f3 ...
ArithOps == {"PL", "MN", "DP", "NP"}

Nums == {0, 2, 3, 4}

RECURSIVE ExprText(_, _)
ExprText(fs, ops) ==
    IF ops = <<>> THEN <<Numeral(fs[1])>>
    ELSE <<Numeral(fs[1]), Kw(ops[1])>> \o ExprText(Tail(fs), Tail(ops))

ExprSource(fs, ops) == Join(<<Kw("SET")>> \o ExprText(fs, ops))

ArithCases == UNION {[fs : [1..(h + 1) -> Nums], ops : [1..h -> ArithOps]] : h \in 1..MaxOps}

MixedCases == UNION {[fs : {[i \in 1..(h + 1) |-> i + 1]}, ops : [1..h -> BinaryOps]] : h \in 1..MaxOps}

ExprSources == {ExprSource(c.fs, c.ops) : c \in ArithCases \cup MixedCases}

\* if true { if true { var int x = 5 } } set x
NestedDecl ==
    <<"i", "f", " ", "t", "r", "u", "e", " ", "{", " ", "i", "f", " ", "t", "r", "u", "e", " ", "{", " ", "v", "a", "r", " ", "i", "n", "t", " ", "x", " ", "=", " ", "5", " ", "}", " ", "}", " ", "s", "e", "t", " ", "x">>

\* programs that declare variables at every nesting, and programs with stray tokens
OtherSources == {
    <<"w", "s", "e", "t", " ", "t", "r", "u", "e", " ", "s", "e", "t", " ", "1">>,
    <<"v", "a", "r", " ", "i", "n", "t", " ", "x", " ", "=", " ", "1", " ", "s", "e", "t", " ", "x">>,
    <<"i", "f", " ", "t", "r", "u", "e", " ", "{", " ", "v", "a", "r", " ", "i", "n", "t", " ", "x", " ", "=", " ", "1", " ", "}", " ", "s", "e", "t", " ", "x">>,
    <<"i", "f", " ", "f", "a", "l", "s", "e", " ", "s", "e", "t", " ", "1", " ", ":", " ", "v", "a", "r", " ", "f", "l", "t", " ", "y", " ", "=", " ", "2", " ", "s", "e", "t", " ", "y">>,
    <<"w", "s", "e", "t", " ", "x", " ", "l", "t", " ", "1", " ", "v", "a", "r", " ", "i", "n", "t", " ", "x", " ", "=", " ", "x", " ", "p", "l", " ", "1", " ", "s", "e", "t", " ", "x">>,
    <<"t", "r", "y", " ", "{", " ", "v", "a", "r", " ", "i", "n", "t", " ", "x", " ", "=", " ", "1", " ", "s", "e", "t", " ", "1", " ", "n", "p", " ", "0", " ", "}", " ", "c", "a", "t", "c", "h", " ", "{", " ", "v", "a", "r", " ", "b", "o", "o", "l", " ", "y", " ", "=", " ", "t", "r", "u", "e", " ", "}", " ", "s", "e", "t", " ", "x", " ", "p", "l", " ", "y">>,
    <<"t", "r", "y", " ", "v", "a", "r", " ", "i", "n", "t", " ", "x", " ", "=", " ", "\"", "a", "\"", " ", "c", "a", "t", "c", "h", " ", "v", "a", "r", " ", "v", "a", "r", " ", "x", " ", "=", " ", "\"", "a", "\"", " ", "s", "e", "t", " ", "x">>,
    <<"f", "c", "e", " ", "h", "e", "l", "l", "o", " ", "f", "c", "e", " ", "m", "i", "s", "s", "i", "n", "g", " ", "s", "e", "t", " ", "x">>,
    NestedDecl,
    <<"v", "a", "r", " ", "i", "n", "t", " ", "x", " ", "=", " ", "i", "n", "p", " ", "s", "e", "t", " ", "x", " ", "p", "l", " ", "1">>,
    <<"i", "f", " ", "t", "r", "u", "e", " ", "1">>,
    <<"i", "f", " ", "t", "r", "u", "e">>,
    <<"w", "s", "e", "t", " ", "t", "r", "u", "e", " ", "\"", "a", "\"">>,
    <<"t", "r", "y", " ", "1", " ", "c", "a", "t", "c", "h", " ", "s", "e", "t", " ", "2">>,
    <<"t", "r", "y", " ", "s", "e", "t", " ", "1", " ", "n", "p", " ", "0", " ", "c", "a", "t", "c", "h", " ", "2">>,
    <<"i", "f", " ", "f", "a", "l", "s", "e", " ", "1", " ", ":", " ", "2">>,
    <<>>,
    <<" ", " ", " ", "#", " ", "o", "n", "l", "y", " ", "a", " ", "c", "o", "m", "m", "e", "n", "t", "\n", "	", "\n", "#", " ", "a", "n", "o", "t", "h", "e", "r">>,
    <<"\"", "a", "\"", " ", "1", " ", "t", "r", "u", "e", " ", "f", "a", "l", "s", "e", " ", "=", " ", ":", " ", "x">> }

Sources == LenSources \cup LoopSources \cup TrySources \cup AndOrSources
             \cup ExprSources \cup OtherSources

\* the lines standard input holds: none, or one
Stdins == {<<>>, <<<<"7">>>>}

ReadsInput(code) == LET ts == tokenize(code) IN \E i \in 1..Len(ts) : ts[i].type = "INP"

\* run_code(code); standard input matters only to a program that holds inp
Init ==
    /\ source \in Sources
    /\ stdin \in (IF ReadsInput(source) THEN Stdins ELSE {<<>>})
    /\ consumed = 0
    /\ tokens = <<>>
    /\ pos = 0
    /\ stmts = <<>>
    /\ perr = "none"
    /\ phase = "lex"
    /\ vars = <<>>
    /\ stack = <<>>
    /\ printed = <<>>
    /\ rerr = "none"
    /\ steps = 0

Next ==
    \/ Tokenize
    \/ ParseStatement
    \/ ParseReturn
    \/ ExecVar
    \/ ExecSet
    \/ ExecIf
    \/ ExecWset
    \/ WhileTest
    \/ ExecBlock
    \/ ExecFce
    \/ ExecTry
    \/ TryDone
    \/ ExecNone
    \/ ReturnRun

Spec == Init /\ [][Next]_allvars

(***************************************************************************)
(* Parser(tokens).parse() on any token list                                *)
(***************************************************************************)
KwToken(name) == Token(name, PyStr(Kw(name)))

\* the tokens of the longer lists
TokenKinds == {
    Token("NUMBER", PyInt(1)), Token("IDENT", PyStr(X)),
    KwToken("VAR"), KwToken("SET"), KwToken("IF"), KwToken("WSET"), KwToken("FCE"),
    KwToken("TRY"), KwToken("CATCH"), KwToken("ASSIGN"), KwToken("LBRACE"),
    KwToken("RBRACE"), KwToken("COLON"), KwToken("PL"), KwToken("LEN") }

\* every token the lexer names
AllTokens == TokenKinds \cup {Token("STRING", PyStr(<<"a">>))}
    \cup {KwToken(token_spec[g].name) : g \in {h \in 1..Len(token_spec) : token_spec[h].pat = "lit"}}

TokenLists == SeqsUpTo(TokenKinds, MaxToks) \cup SeqsUpTo(AllTokens, MaxShort)

InitParse ==
    /\ source = <<>>
    /\ stdin = <<>>
    /\ consumed = 0
    /\ tokens \in TokenLists
    /\ pos = 0
    /\ stmts = <<>>
    /\ perr = "none"
    /\ phase = "parse"
    /\ vars = <<>>
    /\ stack = <<>>
    /\ printed = <<>>
    /\ rerr = "none"
    /\ steps = 0

NextParse ==
    \/ ParseStatement
    \/ ParseReturn
    \/ ReturnRun

SpecParse == InitParse /\ [][NextParse]_allvars

(***************************************************************************)
(* Properties                                                              *)
(***************************************************************************)
Ended == phase \in {"done", "error"}

Types(ts) == [i \in 1..Len(ts) |-> ts[i].type]

DivByZero == Body(Join(<<Kw("SET"), Numeral(1), Kw("NP"), Numeral(0)>>), TRUE, <<>>)

SetCaught == Body(Join(<<Kw("SET"), Quote(Caught)>>), FALSE, <<PyStr(Caught)>>)

\* C1: running try { t } catch { c }: when t ends without an error c is not run
\* (the output is t's, the run ends normally); when t raises, c runs once in its
\* place (the output is what t printed before raising, then c's); the run ends in
\* an error exactly when t raises and c raises too.  try { set 1 np 0 } catch
\* { set "caught" } prints caught.
C1_TryCatch ==
    \A t \in TryBodies, c \in CatchBodies :
        (source = TrySource(t, c) /\ Ended) =>
            /\ printed = t.out \o (IF t.raises THEN c.out ELSE <<>>)
            /\ (phase = "error") = (t.raises /\ c.raises)
            /\ (phase = "error") = (rerr # "none")

C1_Witness ==
    /\ source = TrySource(DivByZero, SetCaught)
    /\ phase = "done"
    /\ printed = <<PyStr(Caught)>>

\* whether the run of set l <op> inp evaluated its right operand inp
RightEvaluated ==
    IF stdin = <<>> THEN phase = "error" /\ rerr = "EOFError" /\ printed = <<>>
    ELSE phase = "done" /\ consumed = 1 /\ printed = <<PyStr(stdin[1])>>

\* whether it ended with the value of l and without touching standard input
RightSkipped(l) == phase = "done" /\ consumed = 0 /\ printed = <<l.v>>

\* C2 as claimed: and/or always evaluate both operands, whatever the left one is
C2_AlwaysBoth ==
    \A l \in LeftOperands, op \in {"AND", "OR"} :
        (source = AndOrSource(l, op) /\ Ended) => (consumed = 1 \/ rerr = "EOFError")

\* C2: and evaluates its right operand exactly when the left one is truthy, or
\* exactly when it is falsy; an evaluated inp reads one line, or its error ends
\* the run; a skipped right operand reads nothing and the value is the left one's.
C2_ShortCircuit ==
    \A l \in LeftOperands, op \in {"AND", "OR"} :
        (source = AndOrSource(l, op) /\ Ended) =>
            IF (op = "AND") = l.truthy THEN RightEvaluated ELSE RightSkipped(l)

C2_Witness ==
    /\ source = AndOrSource(Operand(Numeral(0), FALSE, PyInt(0)), "AND")
    /\ stdin # <<>>
    /\ phase = "done"
    /\ consumed = 0
    /\ printed = <<PyInt(0)>>

\* C3: len "s" is tokenized to a LEN token and a STRING token, parsed to
\* Len(Str(s)), and set len "s" prints the number of characters of s
C3_LenOfLiteral ==
    \A cs \in SeqsUpTo(StrChars, MaxStr) :
        source = LenSource(cs) =>
            /\ phase # "lex" => Types(tokens) = <<"SET", "LEN", "STRING">>
            /\ phase \in {"run", "done"} => stmts = << <<"SET", <<"LEN", <<"STR", PyStr(cs)>>>>>> >>
            /\ phase # "parse error" /\ phase # "error"
            /\ phase = "done" => printed = <<PyInt(Len(cs))>>

\* C4 as claimed: parse returns or fails with "parser desync" or "bad expr", and
\* with nothing else
C4_TwoParseFailures == perr \in {"none", "parser desync", "bad expr"}

\* the program is "set" followed by h + 1 numbers with h binary operators between
IsExprProgram ==
    /\ Len(tokens) >= 4 /\ Len(tokens) % 2 = 0
    /\ tokens[1].type = "SET"
    /\ \A i \in 2..Len(tokens) :
          IF i % 2 = 0 THEN tokens[i].type = "NUMBER" ELSE tokens[i].type \in BinaryOps

\* (((f1 op1 f2) op2 f3) ...) of the first h operators
RECURSIVE LeftTree(_)
LeftTree(h) ==
    IF h = 0 THEN <<"NUM", tokens[2].value>>
    ELSE <<tokens[2 * h + 1].type, LeftTree(h - 1), <<"NUM", tokens[2 * h + 2].value>>>>

\* the fold of the first h operators from the left, as a fraction n/d (ok: no
\* division by zero met)
RECURSIVE LeftFold(_)
LeftFold(h) ==
    IF h = 0 THEN [n |-> tokens[2].value.n, d |-> 1, ok |-> TRUE]
    ELSE LET a == LeftFold(h - 1)
             b == tokens[2 * h + 2].value.n
             op == tokens[2 * h + 1].type
         IN  CASE ~a.ok      -> a
               [] op = "PL"  -> [n |-> a.n + b * a.d, d |-> a.d, ok |-> TRUE]
               [] op = "MN"  -> [n |-> a.n - b * a.d, d |-> a.d, ok |-> TRUE]
               [] op = "DP"  -> [n |-> a.n * b, d |-> a.d, ok |-> TRUE]
               [] op = "NP"  -> [n |-> a.n, d |-> a.d * b, ok |-> b # 0]
               [] OTHER      -> a

TwoPlThreeDpFour == ExprSource(<<2, 3, 4>>, <<"PL", "DP">>)

\* C5: f1 op1 f2 op2 f3 ... parses to the left-nested tree (((f1 op1 f2) op2 f3)
\* ...) for any binary operators, and with pl/mn/dp/np on numbers its value is
\* the fold from the left (a division by zero met on the way ends the run);
\* 2 pl 3 dp 4 is 20.
C5_LeftAssociative ==
    (phase # "lex" /\ IsExprProgram) =>
        LET h == (Len(tokens) - 2) \div 2
            f == LeftFold(h)
        IN  /\ phase # "parse error"
            /\ phase \in {"run", "done", "error"} => stmts = << <<"SET", LeftTree(h)>> >>
            /\ (Ended /\ \A i \in 1..h : tokens[2 * i + 1].type \in ArithOps) =>
                  IF f.ok
                  THEN /\ phase = "done"
                       /\ Len(printed) = 1
                       /\ IsNum(printed[1])
                       /\ printed[1].n * f.d = f.n * printed[1].d
                  ELSE phase = "error" /\ rerr = "ZeroDivisionError" /\ printed = <<>>
            /\ (source = TwoPlThreeDpFour /\ phase = "done") => printed = <<PyInt(20)>>

C5_Witness ==
    /\ source = TwoPlThreeDpFour
    /\ phase = "done"
    /\ stmts = << <<"SET", <<"DP", <<"PL", <<"NUM", PyInt(2)>>, <<"NUM", PyInt(3)>>>>,
                            <<"NUM", PyInt(4)>>>>>> >>
    /\ printed = <<PyInt(20)>>

\* a step keeps every binding, and changes the Environment only by executing a
\* VarDecl, which changes the binding of its own name and no other
EnvStep ==
    /\ \A x \in DOMAIN vars : x \in DOMAIN vars'
    /\ vars' # vars =>
          /\ AtStatement /\ Cur[1] = "VAR"
          /\ DOMAIN vars' = (DOMAIN vars) \cup {Cur[3]}
          /\ \A x \in (DOMAIN vars) \ {Cur[3]} : vars'[x] = vars[x]

\* C6: the Environment starts empty; only the execution of a VarDecl changes it,
\* at any nesting, and it changes the binding of the VarDecl's name alone; Print,
\* CallFunc, the conditions of If and While and every other step leave it as it
\* is; no binding is ever removed, so a binding made in a block is there after it.
C6_EnvironmentFrame == (vars = <<>>) /\ [][EnvStep]_allvars

C6_Witness ==
    /\ source = NestedDecl
    /\ phase = "done"
    /\ vars = [x \in {PyStr(X)} |-> PyInt(5)]
    /\ printed = <<PyInt(5)>>

\* what the loop from x0 below N prints: x0, x0 + 1, ..., N - 1
Counted(x0, N) == [i \in 1..(N - x0) |-> PyInt(x0 + i - 1)]

IsPrefix(a, b) == Len(a) <= Len(b) /\ a = SubSeq(b, 1, Len(a))

\* C7: wset x lt N { set x var int x = x pl 1 }, started with x undefined (read as
\* 0) or bound to x0 <= N, never fails, prints x0, x0 + 1, ... in that order and
\* no more than up to N - 1, and ends within 6 * (N - x0) + 4 steps of run having
\* printed exactly x0 .. N - 1 (N - x0 iterations of the body) with x reading N.
C7_CountingLoop ==
    \A N \in 0..MaxN : \A st \in LoopStarts(N) :
        source = LoopSource(st, N) =>
            LET x0 == IF st = <<>> THEN 0 ELSE st[1]
            IN  /\ phase # "parse error" /\ phase # "error"
                /\ IsPrefix(printed, Counted(x0, N))
                /\ steps <= 6 * (N - x0) + 4 /\ steps < MaxSteps
                /\ phase = "run" => ENABLED Next
                /\ phase = "done" =>
                      /\ printed = Counted(x0, N)
                      /\ Lookup(PyStr(X)) = PyInt(N)
                      /\ DOMAIN vars \subseteq {PyStr(X)}

C7_Witness ==
    /\ source = LoopSource(<<>>, MaxN)
    /\ phase = "done"
    /\ Len(printed) = MaxN
    /\ vars = [x \in {PyStr(X)} |-> PyInt(MaxN)]

StatementKeywords == {"VAR", "SET", "IF", "WSET", "FCE", "TRY"}

NoStatementKeyword == \A i \in 1..Len(tokens) : tokens[i].type \notin StatementKeywords

\* C8: at statement position a token that is none of var, set, if, wset, fce, try
\* is consumed alone, giving no statement and no error; so parse of a token list
\* without these six returns the empty statement list and run prints nothing.
C8_StrayTokensSkipped ==
    /\ \A p \in 0..(Len(tokens) - 1) :
          tokens[p + 1].type \notin StatementKeywords => statement(p) = Ok(p + 1, None)
    /\ NoStatementKeyword =>
          /\ perr = "none" /\ rerr = "none"
          /\ phase \in {"parse", "run", "done"}
          /\ stmts = <<>>
          /\ printed = <<>>

C8_Witness ==
    /\ NoStatementKeyword
    /\ Len(tokens) = MaxToks
    /\ tokens[1].type = "NUMBER" /\ tokens[2].type = "COLON" /\ tokens[3].type = "RBRACE"
    /\ phase = "done"
    /\ pos = Len(tokens)

\* C9: the position is between 0 and the number of tokens; statement, called at
\* any position that holds a token (from the top-level loop or from a block),
\* fails or leaves the position further on, never back and never past the end,
\* so neither loop can iterate without progress.
C9_ParseProgress ==
    /\ 0 <= pos /\ pos <= Len(tokens)
    /\ \A p \in 0..(Len(tokens) - 1) :
          LET r == statement(p)
          IN  /\ r.err # "none" \/ r.pos > p
              /\ p <= r.pos /\ r.pos <= Len(tokens)

C9_Witness ==
    /\ Len(tokens) = 4
    /\ tokens[1].type = "IF" /\ tokens[2].type = "NUMBER"
    /\ tokens[3].type = "LBRACE" /\ tokens[4].type = "NUMBER"
    /\ phase = "parse error"
    /\ perr = "parser desync"
    /\ pos = 4

\* every branch the interpreter runs unconditionally is a statement node
RECURSIVE Executable(_)
Executable(s) ==
    CASE s[1] = "IF"    -> /\ s[3] # None /\ Executable(s[3])
                           /\ s[4] = None \/ Executable(s[4])
      [] s[1] = "WSET"  -> s[3] # None /\ Executable(s[3])
      [] s[1] = "TRY"   -> /\ s[2] # None /\ Executable(s[2])
                           /\ s[3] # None /\ Executable(s[3])
      [] s[1] = "BLOCK" -> \A i \in 1..Len(s[2]) : Executable(s[2][i])
      [] OTHER          -> TRUE

\* C10 as claimed: in the tree parse returns the then-branch of every If, the
\* body of every While and both branches of every TryCatch are statement nodes,
\* and run never fails on a missing branch
C10_BranchesPresent ==
    /\ phase \in {"run", "done", "error"} => \A i \in 1..Len(stmts) : Executable(stmts[i])
    /\ rerr # "TypeError: 'NoneType' object is not subscriptable"

====
